---- MODULE Spec2Model ----
(***************************************************************************)
(* Model of minigpt4/datasets/datasets/mimic_cxr_dataset.py: the three     *)
(* dataset classes MimicCxrDataset, evalMIMICDataset and                   *)
(* evalDetectMimicDataset.  Each instance filters its annotation list at   *)
(* construction (_validate_dataset) and then serves __getitem__ calls      *)
(* while the files on disk may come, go or be corrupted underneath it.     *)
(***************************************************************************)
EXTENDS Integers, Sequences, FiniteSets, TLC

VARIABLES
    variant,           \* which class the instance is
    text_processor,    \* the injected text processor (training variant)
    instruction_pool,  \* self.instruction_pool
    ann,               \* self.ann / self.loaded_data
    disk,              \* the file system: path -> "absent" | "ok" | "corrupt"
    pc,                \* constructor position: "validate" or "ready"
    vidx,              \* enumerate() position of _validate_dataset
    valid_ann,         \* local valid_ann / valid_data
    missing_count,     \* local missing_count
    input,             \* history: the list handed to the constructor
    existed,           \* history: os.path.exists() result per input record
    cpc,               \* per caller: "idle" | "loop" | "returned" | "raised"
    index,             \* per caller: local index of __getitem__
    attempts,          \* per caller: local attempts of __getitem__
    result,            \* per caller: the returned sample
    error,             \* per caller: the exception that escaped
    tried,             \* history per caller: the indices attempted, in order
    loads,             \* history per caller: image loads started
    allMissing         \* history per caller: every image absent during the call

vars == <<variant, text_processor, instruction_pool, ann, disk, pc, vidx,
          valid_ann, missing_count, input, existed, cpc, index, attempts,
          result, error, tried, loads, allMissing>>

config == <<variant, text_processor, instruction_pool, input>>
ctor == <<pc, vidx, valid_ann, missing_count, existed>>
callerVars == <<cpc, index, attempts, result, error, tried, loads, allMissing>>

----------------------------------------------------------------------------
(* Bounds and program constants *)

MaxLen == 3          \* longest annotation list handed to a constructor

max_attempts == 10   \* __getitem__: max_attempts = 10

Callers == {1, 2}   \* caller 2 is active under SpecConcurrent only

Variants == {"MimicCxrDataset", "evalMIMICDataset", "evalDetectMimicDataset"}

Paths == {"a.jpg", "b.jpg"}

FileStates == {"absent", "ok", "corrupt"}

\* Annotation records of the caption-style variants.
CaptionRecords ==
    { [image_path |-> "a.jpg", caption |-> "no acute findings", image_id |-> "s1"],
      [image_path |-> "b.jpg", caption |-> "left pleural effusion", image_id |-> "s2"] }

\* Annotation records of the detection-style variant.
DetectRecords ==
    { [key |-> "a.jpg", objects |-> "cat, dog"],
      [key |-> "b.jpg", objects |-> "left lung"] }

RecordsOf(v) == IF v = "evalDetectMimicDataset" THEN DetectRecords ELSE CaptionRecords

SeqsUpTo(S, n) == UNION { [1..k -> S] : k \in 0..n }

Pool ==
    << "Describe this image in detail",
       "Take a look at this image and describe what you notice",
       "Please provide a detailed description of the picture",
       "Could you describe the contents of this image for me?" >>

PoolOf(v) == IF v = "evalDetectMimicDataset" THEN << >> ELSE Pool

TextProcessors == {"lower", "strict"}

----------------------------------------------------------------------------
(* Pure helpers *)

\* item['image_path'] or item['key']: the field joined to the root.
PathOf(v, item) == IF v = "evalDetectMimicDataset" THEN item.key ELSE item.image_path

\* os.path.exists(image_path)
PathExists(d, p) == d[p] # "absent"

\* Python list indexing: 0-based, negative indices count from the end.
InRange(s, i) == -Len(s) <= i /\ i < Len(s)
PyGet(s, i) == IF i >= 0 THEN s[i + 1] ELSE s[Len(s) + i + 1]

\* Variant of NextIndex without the wrap-around.
NextIndexNoWrap(i, n) == i + 1

\* index = (index + 1) % len(self)
NextIndex(i, n) == (i + 1) % n

\* load_image / the inline decode: the processed image of a readable file.
Image(p, resized) == [path |-> p, resized |-> resized]

\* The injected text processor.  "lower" lower-cases and strips punctuation;
\* "strict" returns its input but raises on text ending in a question mark.
Lowered(s) ==
    CASE s = Pool[1] -> "describe this image in detail"
      [] s = Pool[2] -> "take a look at this image and describe what you notice"
      [] s = Pool[3] -> "please provide a detailed description of the picture"
      [] s = Pool[4] -> "could you describe the contents of this image for me"
      [] OTHER -> s
TextProcessorRaises(tp, s) == tp = "strict" /\ s = Pool[4]
ApplyTextProcessor(tp, s) == IF tp = "lower" THEN Lowered(s) ELSE s

\* Variant of Instruction that leaves out the text processor.
InstructionRaw(tp, s) == "<Img><ImageHere></Img> " \o s

\* f'<Img><ImageHere></Img> {self.text_processor(instruction)}'
Instruction(tp, s) == "<Img><ImageHere></Img> " \o ApplyTextProcessor(tp, s)

\* '{}.jpg'.format(info['image_id'])
ImgId(image_id) == image_id \o ".jpg"

\* Variant of DetectQuestion without the separating space.
DetectQuestionNoSpace(sent) == "[detection]" \o sent

\* f"[detection] {sent}"
DetectQuestion(sent) == "[detection] " \o sent

NoResult == [none |-> TRUE]

----------------------------------------------------------------------------
(* Initial state: __init__ has stored its arguments and is about to run    *)
(* _validate_dataset.                                                      *)

Init ==
    /\ variant \in Variants
    /\ text_processor \in IF variant = "MimicCxrDataset" THEN TextProcessors ELSE {"none"}
    /\ instruction_pool = PoolOf(variant)
    /\ ann \in SeqsUpTo(RecordsOf(variant), MaxLen)
    /\ input = ann
    /\ disk \in [Paths -> FileStates]
    /\ pc = "validate"
    /\ vidx = 0
    /\ valid_ann = << >>
    /\ missing_count = 0
    /\ existed = << >>
    /\ cpc = [w \in Callers |-> "idle"]
    /\ index = [w \in Callers |-> 0]
    /\ attempts = [w \in Callers |-> 0]
    /\ result = [w \in Callers |-> NoResult]
    /\ error = [w \in Callers |-> "none"]
    /\ tried = [w \in Callers |-> << >>]
    /\ loads = [w \in Callers |-> 0]
    /\ allMissing = [w \in Callers |-> FALSE]

----------------------------------------------------------------------------
(* The environment: one file appears, disappears or is corrupted.          *)

AllAbsent(d, a) == \A k \in 1..Len(a) : d[PathOf(variant, a[k])] = "absent"

FsChange ==
    /\ \E p \in Paths, s \in FileStates :
          /\ disk[p] # s
          /\ disk' = [disk EXCEPT ![p] = s]
    /\ allMissing' = [w \in Callers |->
                         allMissing[w] /\ (cpc[w] = "loop" => AllAbsent(disk', ann))]
    /\ UNCHANGED <<config, ann, ctor, cpc, index, attempts, result, error, tried, loads>>

----------------------------------------------------------------------------
(* _validate_dataset: one iteration of the for loop, then the assignment.  *)

\* Variant of AppendValid that inserts at the front.
AppendValidFront(valid, item) == <<item>> \o valid

AppendValid(valid, item) == Append(valid, item)

\* Variant of CountMissing that assigns instead of incrementing.
CountMissingOnce(c) == 1

CountMissing(c) == c + 1

ValidateStep ==
    /\ pc = "validate"
    /\ vidx < Len(ann)
    /\ LET item == ann[vidx + 1]
           found == PathExists(disk, PathOf(variant, item))
       IN /\ IF found
                THEN /\ valid_ann' = AppendValid(valid_ann, item)
                     /\ UNCHANGED missing_count
                ELSE /\ missing_count' = CountMissing(missing_count)
                     /\ UNCHANGED valid_ann
          /\ existed' = Append(existed, found)
    /\ vidx' = vidx + 1
    /\ UNCHANGED <<config, ann, disk, pc, callerVars>>

ValidateFinish ==
    /\ pc = "validate"
    /\ vidx = Len(ann)
    /\ ann' = valid_ann
    /\ pc' = "ready"
    /\ UNCHANGED <<config, disk, vidx, valid_ann, missing_count, existed, callerVars>>

----------------------------------------------------------------------------
(* __len__ *)

DatasetLen == Len(ann)

\* The indices a caller may pass: every valid one, -1 and one past each end.
Indices == (-DatasetLen - 1)..DatasetLen

\* Variant of SelfUnchanged in which an access pops the head of the list.
SelfPopsRecord ==
    /\ ann' = IF ann = << >> THEN ann ELSE Tail(ann)
    /\ UNCHANGED <<variant, text_processor, instruction_pool>>

\* No __getitem__ assigns to an attribute of self.
SelfUnchanged == UNCHANGED <<variant, text_processor, instruction_pool, ann>>

AccessFrame == SelfUnchanged /\ UNCHANGED <<input, disk, ctor>>

----------------------------------------------------------------------------
(* MimicCxrDataset.__getitem__ : entry, one iteration of the while loop,   *)
(* and the raise after the loop.                                           *)

TrainGetItem(w, i) ==
    /\ pc = "ready"
    /\ variant = "MimicCxrDataset"
    /\ cpc[w] = "idle"
    /\ cpc' = [cpc EXCEPT ![w] = "loop"]
    /\ index' = [index EXCEPT ![w] = i]
    /\ attempts' = [attempts EXCEPT ![w] = 0]
    /\ tried' = [tried EXCEPT ![w] = << >>]
    /\ loads' = [loads EXCEPT ![w] = 0]
    /\ allMissing' = [allMissing EXCEPT ![w] = AllAbsent(disk, ann)]
    /\ UNCHANGED <<result, error>>
    /\ AccessFrame

\* Lines 85-88: image is None, move to the next sample.
TrainSkip(w) ==
    /\ index' = [index EXCEPT ![w] = NextIndex(index[w], DatasetLen)]
    /\ attempts' = [attempts EXCEPT ![w] = @ + 1]
    /\ UNCHANGED <<cpc, result, error>>

\* Lines 100-104: the except branch; the modulo itself raises on an empty list.
TrainExcept(w) ==
    IF DatasetLen = 0
    THEN /\ cpc' = [cpc EXCEPT ![w] = "raised"]
         /\ error' = [error EXCEPT ![w] = "ZeroDivisionError"]
         /\ UNCHANGED <<index, attempts, result>>
    ELSE TrainSkip(w)

\* Lines 90-98: the assembled sample.
TrainSample(info, tp, template) ==
    [ image |-> Image(info.image_path, TRUE),
      instruction_input |-> Instruction(tp, template),
      answer |-> info.caption,
      image_id |-> info.image_id ]

\* load_image returns None for an absent file and for one that fails to decode.
LoadFails(d, p) == ~PathExists(d, p) \/ d[p] = "corrupt"

TrainAttempt(w) ==
    /\ pc = "ready"
    /\ variant = "MimicCxrDataset"
    /\ cpc[w] = "loop"
    /\ attempts[w] < max_attempts
    /\ tried' = [tried EXCEPT ![w] = Append(@, index[w])]
    /\ IF ~InRange(ann, index[w])
       THEN /\ TrainExcept(w)
            /\ UNCHANGED loads
       ELSE LET info == PyGet(ann, index[w])
            IN /\ loads' = [loads EXCEPT ![w] = @ + 1]
               /\ IF LoadFails(disk, info.image_path)
                  THEN TrainSkip(w)
                  ELSE \E k \in 1..Len(instruction_pool) :
                          IF TextProcessorRaises(text_processor, instruction_pool[k])
                          THEN TrainExcept(w)
                          ELSE /\ cpc' = [cpc EXCEPT ![w] = "returned"]
                               /\ result' = [result EXCEPT ![w] =
                                     TrainSample(info, text_processor, instruction_pool[k])]
                               /\ UNCHANGED <<index, attempts, error>>
    /\ UNCHANGED allMissing
    /\ AccessFrame

TrainExhausted(w) ==
    /\ pc = "ready"
    /\ variant = "MimicCxrDataset"
    /\ cpc[w] = "loop"
    /\ attempts[w] >= max_attempts
    /\ cpc' = [cpc EXCEPT ![w] = "raised"]
    /\ error' = [error EXCEPT ![w] = "RuntimeError"]
    /\ UNCHANGED <<index, attempts, result, tried, loads, allMissing>>
    /\ AccessFrame

----------------------------------------------------------------------------
(* evalMIMICDataset.__getitem__ and evalDetectMimicDataset.__getitem__ :   *)
(* straight-line code, one index, one Image.open.                          *)

ErrorOf(st) ==
    CASE st = "absent" -> "FileNotFoundError"
      [] st = "corrupt" -> "UnidentifiedImageError"
      [] OTHER -> "none"

\* Variant of EvalFetch that falls back to the next record on a bad image.
EvalFetchFallback(v, data, i, d) ==
    IF ~InRange(data, i)
    THEN [error |-> "IndexError", tried |-> <<i>>, loads |-> 0, at |-> i]
    ELSE IF d[PathOf(v, PyGet(data, i))] = "ok"
    THEN [error |-> "none", tried |-> <<i>>, loads |-> 1, at |-> i]
    ELSE LET j == (i + 1) % Len(data)
         IN [ error |-> ErrorOf(d[PathOf(v, PyGet(data, j))]),
              tried |-> <<i, j>>, loads |-> 2, at |-> j ]

\* Which record the call uses and how the load ends.
EvalFetch(v, data, i, d) ==
    IF ~InRange(data, i)
    THEN [error |-> "IndexError", tried |-> <<i>>, loads |-> 0, at |-> i]
    ELSE LET p == PathOf(v, PyGet(data, i))
         IN [error |-> ErrorOf(d[p]), tried |-> <<i>>, loads |-> 1, at |-> i]

\* Variant of EvalCapSample that processes the question as training does.
EvalCapSampleProcessed(info, template) ==
    [ image |-> Image(info.image_path, TRUE),
      question |-> Instruction("lower", template),
      img_id |-> ImgId(info.image_id) ]

EvalCapSample(info, template) ==
    [ image |-> Image(info.image_path, TRUE),
      question |-> template,
      img_id |-> ImgId(info.image_id) ]

EvalDetectSample(data) ==
    [ image |-> Image(data.key, FALSE),
      question |-> DetectQuestion(data.objects),
      img_id |-> data.key ]

EvalFinish(w, f, sample) ==
    /\ tried' = [tried EXCEPT ![w] = f.tried]
    /\ loads' = [loads EXCEPT ![w] = f.loads]
    /\ index' = [index EXCEPT ![w] = f.at]
    /\ allMissing' = [allMissing EXCEPT ![w] = AllAbsent(disk, ann)]
    /\ IF f.error # "none"
       THEN /\ cpc' = [cpc EXCEPT ![w] = "raised"]
            /\ error' = [error EXCEPT ![w] = f.error]
            /\ UNCHANGED result
       ELSE /\ cpc' = [cpc EXCEPT ![w] = "returned"]
            /\ result' = [result EXCEPT ![w] = sample]
            /\ UNCHANGED error
    /\ UNCHANGED attempts
    /\ AccessFrame

EvalCapGetItem(w, i) ==
    /\ pc = "ready"
    /\ variant = "evalMIMICDataset"
    /\ cpc[w] = "idle"
    /\ LET f == EvalFetch(variant, ann, i, disk)
       IN \E k \in 1..Len(instruction_pool) :
             EvalFinish(w, f, EvalCapSample(PyGet(ann, f.at), instruction_pool[k]))

EvalDetectGetItem(w, i) ==
    /\ pc = "ready"
    /\ variant = "evalDetectMimicDataset"
    /\ cpc[w] = "idle"
    /\ LET f == EvalFetch(variant, ann, i, disk)
       IN EvalFinish(w, f, EvalDetectSample(PyGet(ann, f.at)))

----------------------------------------------------------------------------
(* The caller takes the sample or the exception and may call again.        *)

CallEnds(w) ==
    /\ cpc[w] \in {"returned", "raised"}
    /\ cpc' = [cpc EXCEPT ![w] = "idle"]
    /\ index' = [index EXCEPT ![w] = 0]
    /\ attempts' = [attempts EXCEPT ![w] = 0]
    /\ result' = [result EXCEPT ![w] = NoResult]
    /\ error' = [error EXCEPT ![w] = "none"]
    /\ tried' = [tried EXCEPT ![w] = << >>]
    /\ loads' = [loads EXCEPT ![w] = 0]
    /\ allMissing' = [allMissing EXCEPT ![w] = FALSE]
    /\ AccessFrame

----------------------------------------------------------------------------
(* Specifications *)

Access(w) ==
    \/ \E i \in Indices : TrainGetItem(w, i)
    \/ TrainAttempt(w)
    \/ TrainExhausted(w)
    \/ \E i \in Indices : EvalCapGetItem(w, i)
    \/ \E i \in Indices : EvalDetectGetItem(w, i)
    \/ CallEnds(w)

Next ==
    \/ FsChange
    \/ ValidateStep
    \/ ValidateFinish
    \/ Access(1)

Spec == Init /\ [][Next]_vars

\* Two callers (data-loader workers) share one instance.  The lists handed to
\* the constructor are kept to the lengths in ConcurrentLens.
ConcurrentLens == {0, 1}

NextConcurrent ==
    \/ FsChange
    \/ ValidateStep
    \/ ValidateFinish
    \/ \E w \in Callers : Access(w)

InitConcurrent ==
    /\ Init
    /\ Len(input) \in ConcurrentLens

SpecConcurrent == InitConcurrent /\ [][NextConcurrent]_vars

----------------------------------------------------------------------------
(* Properties *)

Done(w) == cpc[w] \in {"returned", "raised"}

RECURSIVE KeptOf(_, _)
KeptOf(s, flags) ==
    IF s = << >> THEN << >>
    ELSE (IF flags[1] THEN <<s[1]>> ELSE << >>) \o KeptOf(Tail(s), Tail(flags))

\* C1: in each of the three variants, the list held after construction is the
\* order-preserving subsequence of the input records whose image path existed
\* when _validate_dataset looked: nothing that existed is dropped, nothing
\* that was missing is kept, and the order is the input's.
C1_ValidatedIsExistingSubsequence ==
    pc = "ready" =>
        /\ Len(existed) = Len(input)
        /\ ann = KeptOf(input, existed)

C1_Witness ==
    /\ pc = "ready"
    /\ variant = "evalDetectMimicDataset"
    /\ Len(input) = 3
    /\ input[2] = input[3]
    /\ existed = <<TRUE, TRUE, FALSE>>
    /\ ann = <<input[1], input[2]>>
    /\ input[1] # input[2]

\* C2: after construction __len__ is the number of input records minus
\* missing_count; 3 records with one missing image give size 2, count 1.
C2_LenIsInputMinusMissing ==
    pc = "ready" =>
        /\ DatasetLen = Len(input) - missing_count
        /\ (Len(input) = 3 /\ Cardinality({k \in 1..3 : ~existed[k]}) = 1)
              => (DatasetLen = 2 /\ missing_count = 1)

C2_Witness ==
    /\ pc = "ready"
    /\ variant = "MimicCxrDataset"
    /\ Len(input) = 3
    /\ missing_count = 1
    /\ DatasetLen = 2

\* C3: training variant, every image of the dataset missing throughout the
\* call: the call ends in the retry-exhaustion RuntimeError after exactly
\* max_attempts image loads, whatever the index and the dataset size.
C3_AllMissingExhaustsAfterTen ==
    \A w \in Callers :
        (variant = "MimicCxrDataset" /\ Done(w) /\ allMissing[w]) =>
            /\ cpc[w] = "raised"
            /\ error[w] = "RuntimeError"
            /\ loads[w] = max_attempts

\* C10: training variant: a call ends in a returned sample or in the
\* retry-exhaustion RuntimeError, and in no other exception.
C10_OnlyRuntimeErrorEscapes ==
    \A w \in Callers :
        (variant = "MimicCxrDataset" /\ cpc[w] = "raised") => error[w] = "RuntimeError"

\* C4: training variant, list of size n >= 1, access at index i: the attempts
\* are at i, (i+1) mod n, (i+2) mod n, ..., one each and at most max_attempts;
\* a retry happens only when the record at hand failed to load or to
\* assemble; the returned image, answer and image_id are those of the record
\* of the last attempt.
C4_AttemptOrder ==
    \A w \in Callers :
        (variant = "MimicCxrDataset" /\ cpc[w] # "idle" /\ DatasetLen >= 1) =>
            LET s == tried[w]
                n == DatasetLen
            IN /\ Len(s) <= max_attempts
               /\ \A k \in 2..Len(s) : s[k] = (s[1] + (k - 1)) % n
               /\ cpc[w] = "loop" =>
                     /\ Len(s) = attempts[w]
                     /\ index[w] = IF s = << >> THEN index[w] ELSE (s[1] + Len(s)) % n
               /\ cpc[w] = "returned" =>
                     /\ Len(s) = attempts[w] + 1
                     /\ InRange(ann, s[Len(s)])
                     /\ LET r == PyGet(ann, s[Len(s)])
                        IN /\ result[w].image = [path |-> r.image_path, resized |-> TRUE]
                           /\ result[w].answer = r.caption
                           /\ result[w].image_id = r.image_id

C4_RetryOnlyOnFailure ==
    \A w \in Callers :
        (variant = "MimicCxrDataset" /\ cpc[w] = "loop" /\ attempts'[w] = attempts[w] + 1) =>
            \/ ~InRange(ann, index[w])
            \/ disk[PyGet(ann, index[w]).image_path] # "ok"
            \/ text_processor = "strict"

C4_RetryInOrderUntilFirstSuccess ==
    [](C4_AttemptOrder) /\ [][C4_RetryOnlyOnFailure]_vars

C4_Witness ==
    /\ variant = "MimicCxrDataset"
    /\ text_processor = "lower"
    /\ DatasetLen = 2
    /\ ann[1] # ann[2]
    /\ cpc[1] = "returned"
    /\ tried[1] = <<1, 0, 1>>
    /\ result[1].image_id = ann[2].image_id

\* C5: training variant: every returned instruction_input is the image
\* placeholder tag followed by text_processor(t) for one of the four
\* templates t.
C5_InstructionIsTaggedTemplate ==
    \A w \in Callers :
        (variant = "MimicCxrDataset" /\ cpc[w] = "returned") =>
            \E k \in 1..4 :
                result[w].instruction_input =
                    "<Img><ImageHere></Img> " \o
                        (IF text_processor = "lower" THEN Lowered(Pool[k]) ELSE Pool[k])

C5_Witness ==
    /\ variant = "MimicCxrDataset"
    /\ text_processor = "lower"
    /\ cpc[1] = "returned"
    /\ Len(tried[1]) >= 2
    /\ result[1].instruction_input = "<Img><ImageHere></Img> describe this image in detail"

\* C6: evaluation variants: an access at an index whose image is missing or
\* does not decode raises after one load: no other index is tried, no sample
\* is returned.
C6_EvalStep ==
    \A w \in Callers :
        (variant # "MimicCxrDataset" /\ cpc[w] = "idle" /\ cpc'[w] # "idle") =>
            /\ Len(tried'[w]) = 1
            /\ LET i == tried'[w][1]
               IN (InRange(ann, i) /\ disk[PathOf(variant, PyGet(ann, i))] # "ok") =>
                     /\ cpc'[w] = "raised"
                     /\ error'[w] \in {"FileNotFoundError", "UnidentifiedImageError"}
                     /\ loads'[w] = 1
                     /\ result'[w] = NoResult

C6_EvalErrorPropagates == [][C6_EvalStep]_vars

C6_Witness ==
    /\ variant = "evalMIMICDataset"
    /\ DatasetLen = 2
    /\ cpc[1] = "raised"
    /\ error[1] = "FileNotFoundError"
    /\ tried[1] = <<0>>
    /\ disk[ann[1].image_path] = "absent"
    /\ disk[ann[2].image_path] = "ok"

\* C7: detection variant: a returned question is "[detection] " followed by
\* the objects field of record i of the validated list, and the identifier is
\* that record's key; key "a.jpg", objects "cat, dog" give
\* "[detection] cat, dog".
C7_DetectQuestion ==
    \A w \in Callers :
        (variant = "evalDetectMimicDataset" /\ cpc[w] = "returned") =>
            LET r == PyGet(ann, tried[w][1])
            IN /\ result[w].question = "[detection] " \o r.objects
               /\ result[w].img_id = r.key
               /\ (r.key = "a.jpg" /\ r.objects = "cat, dog")
                     => result[w].question = "[detection] cat, dog"

C7_Witness ==
    /\ variant = "evalDetectMimicDataset"
    /\ cpc[1] = "returned"
    /\ DatasetLen = 2
    /\ tried[1] = <<1>>
    /\ result[1].question = "[detection] cat, dog"
    /\ result[1].img_id = "a.jpg"

\* C8: caption-style evaluation variant: a returned question is verbatim one
\* of the four templates (no text processing, no placeholder tag) and the
\* triple is image, question, identifier: the caption is not in it.
C8_EvalQuestionVerbatim ==
    \A w \in Callers :
        (variant = "evalMIMICDataset" /\ cpc[w] = "returned") =>
            LET r == PyGet(ann, tried[w][1])
            IN /\ \E k \in 1..4 : result[w].question = Pool[k]
               /\ DOMAIN result[w] = {"image", "question", "img_id"}
               /\ result[w].img_id = r.image_id \o ".jpg"
               /\ r.caption \notin {result[w].question, result[w].img_id}

C8_Witness ==
    /\ variant = "evalMIMICDataset"
    /\ cpc[1] = "returned"
    /\ result[1].question = "Could you describe the contents of this image for me?"
    /\ result[1].img_id = "s2.jpg"

\* C9: once construction is over nothing changes the validated list, its
\* size or the instruction pool: not an access that returns, retries or
\* raises, in any interleaving of two callers, and not a dropped record's
\* file coming back.
C9_Step ==
    pc = "ready" =>
        /\ ann' = ann
        /\ Len(ann') = DatasetLen
        /\ instruction_pool' = instruction_pool
        /\ pc' = "ready"

C9_ValidatedListReadOnly == [][C9_Step]_vars

C9_Witness ==
    /\ pc = "ready"
    /\ variant = "MimicCxrDataset"
    /\ DatasetLen = 1
    /\ cpc[1] = "returned"
    /\ attempts[1] >= 1
    /\ cpc[2] = "loop"
    /\ attempts[2] >= 2

====
